---- MODULE Spec2Model ----
(***************************************************************************)
(* national_map_with_filters.py: a four-stage pipeline (load the HTML      *)
(* document, extract project records, export them to a spreadsheet,       *)
(* render and save a map with one layer group per cost band).              *)
(*                                                                         *)
(* Texts are sequences of one-character strings.  A decimal number is the  *)
(* record [neg, whole, frac]: its sign, its integer part and its fraction  *)
(* digits with trailing zeros removed, which is the value float() gives    *)
(* for the short decimal texts of the model (at most 15 significant        *)
(* digits, so no two of them round to the same double).                    *)
(***************************************************************************)
EXTENDS Integers, Sequences, FiniteSets, TLC

\* ------------------------------------------------------------------ bounds
MaxRows == 2
MaxTemplates == 2
MaxCostLen == 3
MaxLocLen == 5

\* ------------------------------------------------- thresholds of the bands
Cost50M == 50000000
Cost100M == 100000000
Cost200M == 200000000
Cost300M == 300000000
Cost400M == 400000000

\* --------------------------------------------------------------- characters
AsciiDigits == {"0", "1", "2", "3", "4", "5", "6", "7", "8", "9"}

\* Characters str.isdigit accepts: the ASCII digits, decimal digits of other
\* scripts (here ARABIC-INDIC DIGIT THREE) and digit-like characters that are
\* not decimal (here SUPERSCRIPT TWO).
IsDigitChars == AsciiDigits \cup {"U+0663", "²"}

\* Characters float() reads as a decimal digit (Unicode category Nd).
DecimalChars == AsciiDigits \cup {"U+0663"}

Whitespace == {" "}

DigitValue(c) ==
    CASE c = "0" -> 0 [] c = "1" -> 1 [] c = "2" -> 2 [] c = "3" -> 3
      [] c = "4" -> 4 [] c = "5" -> 5 [] c = "6" -> 6 [] c = "7" -> 7
      [] c = "8" -> 8 [] c = "9" -> 9 [] c = "U+0663" -> 3

\* ------------------------------------------------------------ str methods
\* str.replace(old, ""): every occurrence of the character removed.
Replace(s, old) == SelectSeq(s, LAMBDA c : c # old)

IndexOf(s, ch) ==
    IF \E k \in 1..Len(s) : s[k] = ch
    THEN CHOOSE k \in 1..Len(s) : s[k] = ch /\ \A m \in 1..(k - 1) : s[m] # ch
    ELSE 0

\* str.replace(old, "", 1): the first occurrence removed.
ReplaceFirst(s, old) ==
    LET k == IndexOf(s, old)
    IN  IF k = 0 THEN s ELSE SubSeq(s, 1, k - 1) \o SubSeq(s, k + 1, Len(s))

\* str.isdigit(): non-empty and every character a digit character.
IsDigit(s) == Len(s) > 0 /\ \A k \in 1..Len(s) : s[k] \in IsDigitChars

\* get_text(strip=True) of a tag with one text node: leading and trailing
\* whitespace removed.
Strip(s) ==
    IF \A k \in 1..Len(s) : s[k] \in Whitespace
    THEN << >>
    ELSE LET a == CHOOSE k \in 1..Len(s) :
                      s[k] \notin Whitespace /\ \A m \in 1..(k - 1) : s[m] \in Whitespace
             b == CHOOSE k \in 1..Len(s) :
                      s[k] \notin Whitespace /\ \A m \in (k + 1)..Len(s) : s[m] \in Whitespace
         IN  SubSeq(s, a, b)

\* ------------------------------------------------------------------ float
RECURSIVE DigitsValue(_)
DigitsValue(ds) ==
    IF ds = << >> THEN 0
    ELSE 10 * DigitsValue(SubSeq(ds, 1, Len(ds) - 1)) + DigitValue(ds[Len(ds)])

RECURSIVE StripTrailingZeros(_)
StripTrailingZeros(ds) ==
    IF ds # << >> /\ ds[Len(ds)] = 0
    THEN StripTrailingZeros(SubSeq(ds, 1, Len(ds) - 1))
    ELSE ds

Number(neg, whole, frac) == [neg |-> neg, whole |-> whole, frac |-> frac]
Zero == Number(FALSE, 0, << >>)
ValueError == [raised |-> "ValueError"]

\* float(text) for the texts that reach it: an optional sign, decimal digits
\* and at most one point, with a digit on at least one side of it.  Any other
\* text raises ValueError.
Float(s) ==
    LET signed == Len(s) > 0 /\ s[1] \in {"-", "+"}
        body   == IF signed THEN Tail(s) ELSE s
        dot    == IndexOf(body, ".")
        ip     == IF dot = 0 THEN body ELSE SubSeq(body, 1, dot - 1)
        fp     == IF dot = 0 THEN << >> ELSE SubSeq(body, dot + 1, Len(body))
    IN  IF /\ Len(ip) + Len(fp) > 0
           /\ \A k \in 1..Len(ip) : ip[k] \in DecimalChars
           /\ \A k \in 1..Len(fp) : fp[k] \in DecimalChars
        THEN Number(signed /\ s[1] = "-", DigitsValue(ip),
                    StripTrailingZeros([k \in 1..Len(fp) |-> DigitValue(fp[k])]))
        ELSE ValueError

\* floor of a number; n <= x iff n <= Floor(x), and x < n iff Floor(x) < n,
\* for every integer n.
Floor(x) ==
    IF ~x.neg THEN x.whole
    ELSE IF x.frac = << >> THEN 0 - x.whole ELSE 0 - x.whole - 1

\* format(cost, ",.0f"): the amount rounded half to even.
FormatCost(x) ==
    IF x.frac = << >> \/ x.frac[1] < 5 THEN x.whole
    ELSE IF x.frac[1] > 5 \/ Len(x.frac) > 1 THEN x.whole + 1
    ELSE IF x.whole % 2 = 0 THEN x.whole ELSE x.whole + 1

\* ---------------------------------------------------- extract_coordinates
None == [none |-> TRUE]
NumChars == AsciiDigits \cup {"-", "+", "."}

\* [-+]?[0-9]*\.?[0-9]+
IsDecimalPattern(g) ==
    LET signed == Len(g) > 0 /\ g[1] \in {"-", "+"}
        body   == IF signed THEN Tail(g) ELSE g
    IN  /\ Len(body) > 0
        /\ \A k \in 1..Len(body) : body[k] \in AsciiDigits \cup {"."}
        /\ Cardinality({k \in 1..Len(body) : body[k] = "."}) <= 1
        /\ body[Len(body)] \in AsciiDigits

\* The end of the longest run of characters of `set` that starts at `from`
\* (from - 1 when the run is empty).
RunEnd(s, from, set) ==
    CHOOSE e \in (from - 1)..Len(s) :
        /\ \A k \in from..e : s[k] \in set
        /\ (e < Len(s) => s[e + 1] \notin set)

\* The match of the pattern anchored at position p, if there is one.  A group
\* is followed by whitespace, a comma or the closing parenthesis, none of
\* which is a character of a decimal, so each group is the longest run of
\* decimal characters at its place.
MatchAt(s, p) ==
    LET e1 == RunEnd(s, p + 1, NumChars)
        w1 == RunEnd(s, e1 + 1, Whitespace)
        w2 == RunEnd(s, w1 + 2, Whitespace)
        e2 == RunEnd(s, w2 + 1, NumChars)
        g1 == SubSeq(s, p + 1, e1)
        g2 == SubSeq(s, w2 + 1, e2)
    IN  IF /\ s[p] = "("
           /\ IsDecimalPattern(g1)
           /\ w1 + 1 <= Len(s) /\ s[w1 + 1] = ","
           /\ IsDecimalPattern(g2)
           /\ e2 + 1 <= Len(s) /\ s[e2 + 1] = ")"
        THEN [matched |-> TRUE, group1 |-> g1, group2 |-> g2]
        ELSE [matched |-> FALSE, group1 |-> << >>, group2 |-> << >>]

\* re.search: the match at the leftmost position that has one.
extract_coordinates(location_string) ==
    LET starts == {p \in 1..Len(location_string) : MatchAt(location_string, p).matched}
    IN  IF starts # {}
        THEN LET p == CHOOSE q \in starts : \A r \in starts : q <= r
                 m == MatchAt(location_string, p)
             IN  <<Float(m.group1), Float(m.group2)>>
        ELSE <<None, None>>

\* ------------------------------------------------------------ classifier
\* lo <= cost < hi, for integers lo and hi
InBand(lo, cost, hi) == lo <= Floor(cost) /\ Floor(cost) < hi

\* get_color with the upper bound of each band taken into the band
InBandInclusive(lo, cost, hi) ==
    lo <= Floor(cost) /\ (Floor(cost) < hi \/ cost = [neg |-> FALSE, whole |-> hi, frac |-> << >>])

get_color_UpperInclusive(cost) ==
    IF InBandInclusive(Cost50M, cost, Cost100M) THEN "yellow"
    ELSE IF InBandInclusive(Cost100M, cost, Cost200M) THEN "orange"
    ELSE IF InBandInclusive(Cost200M, cost, Cost300M) THEN "red"
    ELSE IF InBandInclusive(Cost300M, cost, Cost400M) THEN "brown"
    ELSE IF Cost400M <= Floor(cost) THEN "black"
    ELSE "lightgrey"

\* get_color(cost)
get_color(cost) ==
    IF InBand(Cost50M, cost, Cost100M) THEN "yellow"
    ELSE IF InBand(Cost100M, cost, Cost200M) THEN "orange"
    ELSE IF InBand(Cost200M, cost, Cost300M) THEN "red"
    ELSE IF InBand(Cost300M, cost, Cost400M) THEN "brown"
    ELSE IF Cost400M <= Floor(cost) THEN "black"
    ELSE "lightgrey"

\* The names of the feature groups (written with a hyphen for the dash)
GroupNames == {"50M-100M", "100M-200M", "200M-300M", "300M-400M", "400M+"}
NoGroup == "none"

\* The chain with the lower bound of each band left out of the band
GroupOf_LowerExclusive(cost) ==
    IF InBand(Cost50M + 1, cost, Cost100M) THEN "50M-100M"
    ELSE IF InBand(Cost100M + 1, cost, Cost200M) THEN "100M-200M"
    ELSE IF InBand(Cost200M + 1, cost, Cost300M) THEN "200M-300M"
    ELSE IF InBand(Cost300M + 1, cost, Cost400M) THEN "300M-400M"
    ELSE IF Cost400M + 1 <= Floor(cost) THEN "400M+"
    ELSE NoGroup

\* The chain that assigns a marker to its group: the group the marker is
\* added to, NoGroup when no branch is taken.
GroupOf(cost) ==
    IF InBand(Cost50M, cost, Cost100M) THEN "50M-100M"
    ELSE IF InBand(Cost100M, cost, Cost200M) THEN "100M-200M"
    ELSE IF InBand(Cost200M, cost, Cost300M) THEN "200M-300M"
    ELSE IF InBand(Cost300M, cost, Cost400M) THEN "300M-400M"
    ELSE IF Cost400M <= Floor(cost) THEN "400M+"
    ELSE NoGroup

\* --------------------------------------------------------------- document
\* A tag found by select_one with its text, or no tag; an attribute likewise.
Tag(t) == [present |-> TRUE, text |-> t]
NoTag == [present |-> FALSE, text |-> << >>]
Attr(v) == [present |-> TRUE, value |-> v]
NoAttr == [present |-> FALSE, value |-> ""]

\* tag.get_text(strip=True) if tag else default
TextOr(tag, default) == IF tag.present THEN Strip(tag.text) ELSE default

\* f"proj-card-{project_id}", as the part after "proj-card-"; row.get gives
\* None for a missing attribute, which formats as "None".
CardId(project_id) == IF project_id.present THEN project_id.value ELSE "None"

\* {t["id"]: t for t in ...}: a later template replaces an earlier one with
\* the same id.
TemplatesDict(ts) ==
    [k \in {ts[n].id : n \in 1..Len(ts)} |->
        ts[CHOOSE n \in 1..Len(ts) :
              ts[n].id = k /\ \A m \in (n + 1)..Len(ts) : ts[m].id # k]]

\* The cost of a template: separators and the currency symbol removed, then
\* float() when the text is digits around at most one point, else 0.
\* ValueError when float() raises.
cost_str(cost_tag) ==
    IF cost_tag.present
    THEN Replace(Replace(Strip(cost_tag.text), ","), "₱")
    ELSE <<"0">>

ParseCost(cost_tag) ==
    IF IsDigit(ReplaceFirst(cost_str(cost_tag), "."))
    THEN Float(cost_str(cost_tag))
    ELSE Zero

Unknown == <<"U", "n", "k", "n", "o", "w", "n">>
NA == <<"N", "/", "A">>

\* The body of the extraction loop for one row: what it appends to projects
\* (a sequence of zero or one records), or the exception it raises.
Appends(recs) == [raised |-> "none", records |-> recs]
Raises(exc) == [raised |-> exc, records |-> << >>]

\* The loop body without the test of the coordinates before the append
RowRecords_NoGuard(row, tmpl) ==
    LET key == CardId(row.data_id)
    IN  IF key \notin DOMAIN tmpl THEN Appends(<< >>)
        ELSE
        LET template_tag    == tmpl[key]
            location_string == TextOr(template_tag.longi, Unknown)
            coords          == extract_coordinates(location_string)
            cost            == ParseCost(template_tag.const)
        IN  IF cost = ValueError THEN Raises("ValueError")
            ELSE Appends(<< [Title |-> Strip(row.text),
                             Contractor |-> TextOr(template_tag.contractor, NA),
                             StartDate |-> TextOr(template_tag.start_date, Unknown),
                             Cost |-> cost,
                             Latitude |-> coords[1], Longitude |-> coords[2],
                             Location |-> location_string] >>)

RowRecords(row, tmpl) ==
    LET project_name    == Strip(row.text)
        key             == CardId(row.data_id)
    IN  IF key \notin DOMAIN tmpl THEN Appends(<< >>)
        ELSE
        LET template_tag    == tmpl[key]
            location_string == TextOr(template_tag.longi, Unknown)
            coords          == extract_coordinates(location_string)
            contractor      == TextOr(template_tag.contractor, NA)
            cost            == ParseCost(template_tag.const)
            start_date      == TextOr(template_tag.start_date, Unknown)
        IN  IF cost = ValueError THEN Raises("ValueError")
            ELSE IF coords[1] # None /\ coords[2] # None
            THEN Appends(<< [Title |-> project_name, Contractor |-> contractor,
                     StartDate |-> start_date, Cost |-> cost,
                     Latitude |-> coords[1], Longitude |-> coords[2],
                     Location |-> location_string] >>)
            ELSE Appends(<< >>)

\* ------------------------------------------------------- export and map
\* The keys of a record in the order the dict literal gives them.
RecordKeys ==
    <<"Title", "Contractor", "Start Date", "Cost", "Latitude", "Longitude", "Location">>

Field(rec, key) ==
    CASE key = "Title" -> rec.Title
      [] key = "Contractor" -> rec.Contractor
      [] key = "Start Date" -> rec.StartDate
      [] key = "Cost" -> rec.Cost
      [] key = "Latitude" -> rec.Latitude
      [] key = "Longitude" -> rec.Longitude
      [] key = "Location" -> rec.Location

\* pd.DataFrame(projects): the columns are the keys of the records, so an
\* empty list gives a frame with no columns.
DataFrame(recs) ==
    [columns |-> IF recs = << >> THEN << >> ELSE RecordKeys, rows |-> recs]

NoFile == [exists |-> FALSE, header |-> << >>, rows |-> << >>]

\* to_excel that adds the rows to those of the file already there
to_excel_Append(frame, existing) ==
    [exists |-> TRUE,
     header |-> frame.columns,
     rows   |-> existing.rows \o
                [n \in 1..Len(frame.rows) |->
                    [k \in 1..Len(frame.columns) |-> Field(frame.rows[n], frame.columns[k])]]]

\* df.to_excel(EXCEL_FILE, index=False): the file is replaced by the header
\* row of column names and one row of cells per record, in column order.
to_excel(frame, existing) ==
    [exists |-> TRUE,
     header |-> frame.columns,
     rows   |-> [n \in 1..Len(frame.rows) |->
                    [k \in 1..Len(frame.columns) |-> Field(frame.rows[n], frame.columns[k])]]]

EmptyGroups == [g \in GroupNames |-> << >>]
NoMap == [exists |-> FALSE, layers |-> EmptyGroups]

\* CircleMarker(...).add_child(Popup(...)) for one row of the frame
Marker(row) ==
    [location |-> <<row.Latitude, row.Longitude>>,
     color    |-> get_color(row.Cost),
     tooltip  |-> FormatCost(row.Cost),
     popup    |-> <<row.Title, FormatCost(row.Cost)>>]

\* save of a map the groups were never added to
save_WithoutGroups(layers, existing) == [exists |-> TRUE, layers |-> EmptyGroups]

\* project_map.save(MAP_FILE): the file is replaced by the rendered map
save(layers, existing) == [exists |-> TRUE, layers |-> layers]

\* ------------------------------------------------------------------ state
VARIABLES
    doc,            \* the input document: its project rows and its templates
    exportFile,     \* EXCEL_FILE on disk
    mapFile,        \* MAP_FILE on disk
    pc,             \* the stage the run is at
    failure,        \* the exception that ended the run, "none" while it runs
    rows,           \* soup.select("tr td.desc-a a.load-project-card")
    templates,      \* the dict of templates by id
    i,              \* position of the extraction loop in rows
    projects,       \* the records extracted so far
    df,             \* the DataFrame of the records
    groups,         \* the markers of each feature group
    unattached,     \* the markers created and added to no group
    j,              \* position of the marker loop in df
    exportWritten,  \* this run has written EXCEL_FILE
    mapWritten,     \* this run has written MAP_FILE
    run,            \* 1 for the first run on the document, 2 for the second
    first           \* what the first run wrote, once a second run has begun

vars == <<doc, exportFile, mapFile, pc, failure, rows, templates, i, projects, df,
          groups, unattached, j, exportWritten, mapWritten, run, first>>

\* ------------------------------------------------------------------ inputs
SeqsUpTo(S, n) == UNION {[1..k -> S] : k \in 0..n}

RoadWidening == <<"R", "o", "a", "d", " ", "W", "i", "d", "e", "n", "i", "n", "g">>
Bridge == <<" ", "B", "r", "i", "d", "g", "e">>
Acme == <<"A", "c", "m", "e">>
Year == <<"2", "0", "2", "1", " ">>

Loc_10_123 == <<"(", "1", "0", ".", "0", ",", " ", "1", "2", "3", ".", "0", ")">>
Loc_11_124 == <<"(", "1", "1", ".", "5", "5", ",", " ", "1", "2", "4", ".", "7", "3", ")">>

\* Location texts around the pattern: signs, spaces on either side of the
\* comma, a space before the closing parenthesis, a point with no digit after
\* it, text around the pair, two pairs.
LocSamples ==
    { Loc_10_123, Loc_11_124, Unknown,
      <<"(", "-", "1", ".", "5", ",", "+", "2", ")">>,
      <<"(", ".", "5", " ", ",", "-", "3", ")">>,
      <<"(", "1", ",", "2", " ", ")">>,
      <<"(", "+", "-", "1", ",", "2", ")">>,
      <<"(", "1", ".", ",", "2", ")">>,
      <<"(", " ", "1", ",", "2", ")">>,
      <<"1", "0", ".", "0", ",", " ", "1", "2", "3", ".", "0">>,
      <<"B", "r", "g", "y", " ", "(", "(", "9", ",", "8", ")", " ", "x">>,
      <<"(", "a", ")", "(", "3", ",", "4", ")", "(", "5", ",", "6", ")">> }

LocChars == {"(", ")", ",", "1"}
LocTexts == LocSamples \cup SeqsUpTo(LocChars, MaxLocLen)

Cost_75M == <<"₱", "7", "5", ",", "0", "0", "0", ",", "0", "0", "0">>
Cost_1M == <<"₱", "1", ",", "2", "3", "4", ",", "5", "6", "7", ".", "0", "0">>
Cost_Sup == <<"1", "²">>

\* Cost texts at and next to every threshold, with and without separators
\* and the currency symbol.
CostSamples ==
    { Cost_75M, Cost_1M, Cost_Sup,
      <<"4", "9", "9", "9", "9", "9", "9", "9", ".", "9", "9">>,
      <<"₱", "5", "0", ",", "0", "0", "0", ",", "0", "0", "0">>,
      <<"9", "9", ",", "9", "9", "9", ",", "9", "9", "9", ".", "9", "9">>,
      <<"1", "0", "0", "0", "0", "0", "0", "0", "0">>,
      <<"₱", "1", "9", "9", "9", "9", "9", "9", "9", "9", ".", "5">>,
      <<"2", "0", "0", ",", "0", "0", "0", ",", "0", "0", "0", ".", "0", "0">>,
      <<"2", "9", "9", "9", "9", "9", "9", "9", "9">>,
      <<" ", "₱", "3", "0", "0", "0", "0", "0", "0", "0", "0", ".">>,
      <<"3", "9", "9", "9", "9", "9", "9", "9", "9", ".", "9">>,
      <<"₱", "4", "0", "0", ",", "0", "0", "0", ",", "0", "0", "0">>,
      <<"₱", "1", ",", "5", "0", "0", ",", "0", "0", "0", ",", "0", "0", "0">>,
      <<"-", "7", "5", "0", "0", "0", "0", "0", "0">>,
      <<"7", "5", " ", "0", "0", "0", " ", "0", "0", "0">>,
      <<"7", "5", ".", "0", "0", "0", ".", "0", "0", "0">>,
      <<"P", "7", "5", "0", "0", "0", "0", "0", "0">>,
      <<"7", "5", "U+0663", "0", "0", "0", "0", "0">> }

CostChars == {"0", "5", ".", ",", "₱", "-", "+", " ", "a", "²"}
CostTexts == CostSamples \cup SeqsUpTo(CostChars, MaxCostLen)

Template(id, longi, contractor, const, start_date) ==
    [id |-> id, longi |-> longi, contractor |-> contractor, const |-> const,
     start_date |-> start_date]

\* Documents that vary the structure: which rows there are, in which order,
\* which of them have a template, whose coordinates resolve, which band the
\* cost is in.
StructureRows ==
    { [data_id |-> Attr("1"), text |-> RoadWidening],
      [data_id |-> Attr("1"), text |-> Bridge],
      [data_id |-> NoAttr, text |-> Bridge] }

StructureTemplates ==
    { Template(f[1], Tag(f[2]), Tag(Acme), Tag(f[3]), Tag(Year)) :
        f \in { <<"1", Loc_10_123, Cost_75M>>, <<"1", Loc_11_124, Cost_1M>>,
                <<"1", Unknown, Cost_75M>>, <<"1", Loc_10_123, Cost_Sup>>,
                <<"None", Loc_11_124, Cost_1M>>, <<"None", Loc_10_123, Cost_75M>> } }

StructureDocs ==
    [rows : SeqsUpTo(StructureRows, MaxRows),
     templates : SeqsUpTo(StructureTemplates, MaxTemplates)]

OneRow == << [data_id |-> Attr("1"), text |-> RoadWidening] >>

\* Documents of one row and one template that vary which fields the template
\* has.
FieldDocs ==
    [rows : {OneRow},
     templates : { << Template("1", lo, co, cs, sd) >> :
                     lo \in {NoTag, Tag(Loc_10_123)}, co \in {NoTag, Tag(Acme)},
                     cs \in {NoTag, Tag(Cost_75M)}, sd \in {NoTag, Tag(Year)} }]

\* Documents of one row and one template that vary the cost text.
CostDocs ==
    [rows : {OneRow},
     templates : { << Template("1", Tag(Loc_10_123), Tag(Acme), Tag(t), Tag(Year)) >> :
                     t \in CostTexts }]

\* Documents of one row and one template that vary the location text.
LocDocs ==
    [rows : {OneRow},
     templates : { << Template("1", Tag(t), Tag(Acme), Tag(Cost_75M), Tag(Year)) >> :
                     t \in LocTexts }]

\* Documents for two runs in a row: rows in any order, with and without a
\* template, in and below the bands.
TwiceTemplates ==
    { Template(f[1], Tag(f[2]), Tag(Acme), Tag(f[3]), Tag(Year)) :
        f \in { <<"1", Loc_10_123, Cost_75M>>, <<"1", Unknown, Cost_75M>>,
                <<"None", Loc_11_124, Cost_1M>> } }

TwiceDocs ==
    [rows : SeqsUpTo(StructureRows, MaxRows),
     templates : SeqsUpTo(TwiceTemplates, MaxTemplates)]

\* Files an earlier run of some other document left behind.
StaleExport == [exists |-> TRUE, header |-> RecordKeys, rows |-> << <<"old">> >>]
StaleMap == [exists |-> TRUE, layers |-> [EmptyGroups EXCEPT !["400M+"] = <<"old">>]]

Start(d, ef, mf) ==
    /\ doc = d
    /\ exportFile = ef
    /\ mapFile = mf
    /\ pc = "load"
    /\ failure = "none"
    /\ rows = << >>
    /\ templates = TemplatesDict(<< >>)
    /\ i = 1
    /\ projects = << >>
    /\ df = DataFrame(<< >>)
    /\ groups = EmptyGroups
    /\ unattached = << >>
    /\ j = 1
    /\ exportWritten = FALSE
    /\ mapWritten = FALSE
    /\ run = 1
    /\ first = [export |-> NoFile, map |-> NoMap]

Init ==
    \/ \E d \in FieldDocs :
         \E ef \in {NoFile, StaleExport}, mf \in {NoMap, StaleMap} : Start(d, ef, mf)
    \/ \E d \in StructureDocs \cup CostDocs \cup LocDocs : Start(d, NoFile, NoMap)

InitTwice ==
    \E d \in TwiceDocs \cup FieldDocs :
        \E ef \in {NoFile, StaleExport}, mf \in {NoMap, StaleMap} : Start(d, ef, mf)

\* ----------------------------------------------------------------- stages
\* with open(DOM_FILE) ... soup = BeautifulSoup(html); rows, templates
Load ==
    /\ pc = "load"
    /\ rows' = doc.rows
    /\ templates' = TemplatesDict(doc.templates)
    /\ i' = 1
    /\ projects' = << >>
    /\ pc' = "extract"
    /\ UNCHANGED <<doc, exportFile, mapFile, failure, df, groups, unattached, j,
                   exportWritten, mapWritten, run, first>>

\* open() or read() raises
LoadFail ==
    /\ pc = "load"
    /\ pc' = "failed"
    /\ failure' = "read"
    /\ UNCHANGED <<doc, exportFile, mapFile, rows, templates, i, projects, df, groups,
                   unattached, j, exportWritten, mapWritten, run, first>>

\* The iteration with the record put at the front of projects
ExtractRow_Prepend ==
    /\ pc = "extract"
    /\ i <= Len(rows)
    /\ LET out == RowRecords(rows[i], templates)
       IN  IF out.raised # "none"
           THEN /\ pc' = "failed"
                /\ failure' = out.raised
                /\ UNCHANGED <<i, projects>>
           ELSE /\ projects' = out.records \o projects
                /\ i' = i + 1
                /\ UNCHANGED <<pc, failure>>
    /\ UNCHANGED <<doc, exportFile, mapFile, rows, templates, df, groups, unattached, j,
                   exportWritten, mapWritten, run, first>>

\* One iteration of `for row in rows`
ExtractRow ==
    /\ pc = "extract"
    /\ i <= Len(rows)
    /\ LET out == RowRecords(rows[i], templates)
       IN  IF out.raised # "none"
           THEN /\ pc' = "failed"
                /\ failure' = out.raised
                /\ UNCHANGED <<i, projects>>
           ELSE /\ projects' = projects \o out.records
                /\ i' = i + 1
                /\ UNCHANGED <<pc, failure>>
    /\ UNCHANGED <<doc, exportFile, mapFile, rows, templates, df, groups, unattached, j,
                   exportWritten, mapWritten, run, first>>

\* The loop is over: df = pd.DataFrame(projects)
ExtractDone ==
    /\ pc = "extract"
    /\ i > Len(rows)
    /\ df' = DataFrame(projects)
    /\ pc' = "export"
    /\ UNCHANGED <<doc, exportFile, mapFile, failure, rows, templates, i, projects, groups,
                   unattached, j, exportWritten, mapWritten, run, first>>

\* The export step left out: the map is made with nothing exported
Export_Skipped ==
    /\ pc = "export"
    /\ groups' = EmptyGroups
    /\ unattached' = << >>
    /\ j' = 1
    /\ pc' = "render"
    /\ UNCHANGED <<doc, exportFile, exportWritten, mapFile, failure, rows, templates, i,
                   projects, df, mapWritten, run, first>>

\* df.to_excel(EXCEL_FILE, index=False), then the map and its groups are made
Export ==
    /\ pc = "export"
    /\ exportFile' = to_excel(df, exportFile)
    /\ exportWritten' = TRUE
    /\ groups' = EmptyGroups
    /\ unattached' = << >>
    /\ j' = 1
    /\ pc' = "render"
    /\ UNCHANGED <<doc, mapFile, failure, rows, templates, i, projects, df, mapWritten,
                   run, first>>

\* to_excel raises and the exception is caught: the run goes on to the map
ExportFail_Caught ==
    /\ pc = "export"
    /\ groups' = EmptyGroups
    /\ unattached' = << >>
    /\ j' = 1
    /\ pc' = "render"
    /\ UNCHANGED <<doc, exportFile, mapFile, failure, rows, templates, i, projects, df,
                   exportWritten, mapWritten, run, first>>

\* to_excel raises
ExportFail ==
    /\ pc = "export"
    /\ pc' = "failed"
    /\ failure' = "export"
    /\ UNCHANGED <<doc, exportFile, mapFile, rows, templates, i, projects, df, groups,
                   unattached, j, exportWritten, mapWritten, run, first>>

\* One iteration of `for idx, row in df.iterrows()`
RenderRow ==
    /\ pc = "render"
    /\ j <= Len(df.rows)
    /\ LET row    == df.rows[j]
           marker == Marker(row)
           g      == GroupOf(row.Cost)
       IN  IF g # NoGroup
           THEN /\ groups' = [groups EXCEPT ![g] = Append(@, marker)]
                /\ UNCHANGED unattached
           ELSE /\ unattached' = Append(unattached, marker)
                /\ UNCHANGED groups
    /\ j' = j + 1
    /\ UNCHANGED <<doc, exportFile, mapFile, pc, failure, rows, templates, i, projects, df,
                   exportWritten, mapWritten, run, first>>

\* The loop is over: the groups, the layer control and the legend are added
RenderDone ==
    /\ pc = "render"
    /\ j > Len(df.rows)
    /\ pc' = "save"
    /\ UNCHANGED <<doc, exportFile, mapFile, failure, rows, templates, i, projects, df,
                   groups, unattached, j, exportWritten, mapWritten, run, first>>

\* project_map.save(MAP_FILE)
Save ==
    /\ pc = "save"
    /\ mapFile' = save(groups, mapFile)
    /\ mapWritten' = TRUE
    /\ pc' = "done"
    /\ UNCHANGED <<doc, exportFile, failure, rows, templates, i, projects, df, groups,
                   unattached, j, exportWritten, run, first>>

\* save raises
SaveFail ==
    /\ pc = "save"
    /\ pc' = "failed"
    /\ failure' = "save"
    /\ UNCHANGED <<doc, exportFile, mapFile, rows, templates, i, projects, df, groups,
                   unattached, j, exportWritten, mapWritten, run, first>>

Next ==
    \/ Load
    \/ LoadFail
    \/ ExtractRow
    \/ ExtractDone
    \/ Export
    \/ ExportFail
    \/ RenderRow
    \/ RenderDone
    \/ Save
    \/ SaveFail

Spec == Init /\ [][Next]_vars

\* The script is run again on the same document, the files of the first run
\* still on disk.
Rerun ==
    /\ pc \in {"done", "failed"}
    /\ run = 1
    /\ run' = 2
    /\ first' = [export |-> IF exportWritten THEN exportFile ELSE NoFile,
                 map    |-> IF mapWritten THEN mapFile ELSE NoMap]
    /\ pc' = "load"
    /\ failure' = "none"
    /\ rows' = << >>
    /\ templates' = TemplatesDict(<< >>)
    /\ i' = 1
    /\ projects' = << >>
    /\ df' = DataFrame(<< >>)
    /\ groups' = EmptyGroups
    /\ unattached' = << >>
    /\ j' = 1
    /\ exportWritten' = FALSE
    /\ mapWritten' = FALSE
    /\ UNCHANGED <<doc, exportFile, mapFile>>

NextTwice ==
    \/ Load
    \/ LoadFail
    \/ ExtractRow
    \/ ExtractDone
    \/ Export
    \/ ExportFail
    \/ RenderRow
    \/ RenderDone
    \/ Save
    \/ SaveFail
    \/ Rerun

SpecTwice == InitTwice /\ [][NextTwice]_vars

\* ================================================================= claims
\* What the claims say the bands are: the outcomes (a group, or NoGroup for
\* unclassified) whose stated range holds the cost.
ClaimOutcomes(c) ==
    { o \in GroupNames \cup {NoGroup} :
        CASE o = NoGroup     -> Floor(c) < Cost50M
          [] o = "50M-100M"  -> Cost50M <= Floor(c) /\ Floor(c) < Cost100M
          [] o = "100M-200M" -> Cost100M <= Floor(c) /\ Floor(c) < Cost200M
          [] o = "200M-300M" -> Cost200M <= Floor(c) /\ Floor(c) < Cost300M
          [] o = "300M-400M" -> Cost300M <= Floor(c) /\ Floor(c) < Cost400M
          [] o = "400M+"     -> Cost400M <= Floor(c) }

ClaimColor(o) ==
    CASE o = NoGroup     -> "lightgrey"
      [] o = "50M-100M"  -> "yellow"
      [] o = "100M-200M" -> "orange"
      [] o = "200M-300M" -> "red"
      [] o = "300M-400M" -> "brown"
      [] o = "400M+"     -> "black"

Range(q) == {q[n] : n \in 1..Len(q)}

\* The markers created so far, attached or not
Created == UNION {Range(groups[g]) : g \in GroupNames} \cup Range(unattached)
Count(q, P(_)) == Cardinality({n \in 1..Len(q) : P(q[n])})

\* C1: every marker attached to a group has the colour of that group, and a
\* marker attached to no group is lightgrey, so the colours and the groups
\* agree, in the loop and in the saved map.
C1_ColorAgreesWithGroup ==
    /\ \A g \in GroupNames : \A m \in Range(groups[g]) : m.color = ClaimColor(g)
    /\ \A m \in Range(unattached) : m.color = "lightgrey"
    /\ mapWritten =>
         \A g \in GroupNames : \A m \in Range(mapFile.layers[g]) : m.color = ClaimColor(g)

\* C1 witness: the map was saved with the marker of a record that costs
\* exactly 100,000,000, orange and in the layer 100M-200M.
C1_Witness_BoundaryRendered ==
    /\ pc = "done"
    /\ \E m \in Range(mapFile.layers["100M-200M"]) : m.tooltip = Cost100M /\ m.color = "orange"

\* C2: each cost is in exactly one of the six stated ranges, and the rows
\* rendered so far went, one marker each, to the group and the colour of the
\* range their cost is in.
C2_HalfOpenBands ==
    /\ \A n \in 1..Len(df.rows) : Cardinality(ClaimOutcomes(df.rows[n].Cost)) = 1
    /\ LET all     == [g \in GroupNames \cup {NoGroup} |->
                          IF g = NoGroup THEN unattached ELSE groups[g]]
           outcome == [n \in 1..(j - 1) |-> ClaimOutcomes(df.rows[n].Cost)]
       IN  \A o \in GroupNames \cup {NoGroup} :
         LET due == Cardinality({n \in 1..(j - 1) : outcome[n] = {o}})
         IN  /\ Len(all[o]) = due
             /\ due = Count(all[NoGroup], LAMBDA m : m.color = ClaimColor(o))
                      + Count(all["50M-100M"], LAMBDA m : m.color = ClaimColor(o))
                      + Count(all["100M-200M"], LAMBDA m : m.color = ClaimColor(o))
                      + Count(all["200M-300M"], LAMBDA m : m.color = ClaimColor(o))
                      + Count(all["300M-400M"], LAMBDA m : m.color = ClaimColor(o))
                      + Count(all["400M+"], LAMBDA m : m.color = ClaimColor(o))

\* C2 witness: a cost exactly at an upper bound was rendered into the next
\* band.
C2_Witness_UpperBoundInNextBand ==
    /\ pc = "save"
    /\ \E n \in 1..Len(df.rows) : df.rows[n].Cost = Number(FALSE, Cost200M, << >>)
    /\ Len(groups["200M-300M"]) = 1

\* A text contains a parenthesised decimal pair: an opening parenthesis, a
\* decimal, a comma, a decimal and a closing parenthesis, whitespace allowed
\* on either side of the comma only.
HasPair(t) ==
    \E a \in 1..Len(t) : t[a] = "(" /\
    \E b \in (a + 1)..Len(t) : t[b] = "," /\
    \E c \in (b + 1)..Len(t) : t[c] = ")" /\
    \E e \in a..(b - 1) : \E f \in (b + 1)..c :
        /\ \A k \in (e + 1)..(b - 1) : t[k] \in Whitespace
        /\ \A k \in (b + 1)..(f - 1) : t[k] \in Whitespace
        /\ IsDecimalPattern(SubSeq(t, a + 1, e))
        /\ IsDecimalPattern(SubSeq(t, f, c - 1))

\* The template of the document a row is joined to, by the id
\* "proj-card-{data-id}"
HasTemplate(row) == \E n \in 1..Len(doc.templates) : doc.templates[n].id = CardId(row.data_id)
ClaimTemplate(row) ==
    doc.templates[CHOOSE n \in 1..Len(doc.templates) :
                     /\ doc.templates[n].id = CardId(row.data_id)
                     /\ \A m \in (n + 1)..Len(doc.templates) :
                            doc.templates[m].id # CardId(row.data_id)]

Resolvable(row) ==
    /\ HasTemplate(row)
    /\ ClaimTemplate(row).longi.present
    /\ HasPair(ClaimTemplate(row).longi.text)

\* The rows the extraction loop has been through
Processed == SubSeq(rows, 1, i - 1)

\* C3: every record, every exported row and every marker has both
\* coordinates; the rows gone through whose location is absent or holds no
\* pair have produced no record; and a run that fails in the extraction
\* fails on a row whose cost text holds a digit character float() rejects,
\* not on a location.
C3_CoordinatesNonNull ==
    /\ \A r \in Range(projects) : r.Latitude # None /\ r.Longitude # None
    /\ exportWritten => \A r \in Range(exportFile.rows) : r[5] # None /\ r[6] # None
    /\ \A m \in Created : m.location[1] # None /\ m.location[2] # None
    /\ Len(projects) <= Count(Processed, Resolvable)
    /\ (pc = "failed" /\ failure \notin {"read", "export", "save"}) =>
         /\ HasTemplate(rows[i])
         /\ ClaimTemplate(rows[i]).const.present
         /\ \E c \in Range(ClaimTemplate(rows[i]).const.text) : c \in IsDigitChars \ DecimalChars

\* C3 witness: the run completed on a document whose row has a template with
\* a location text that holds no pair, and nothing was extracted from it.
C3_Witness_RowDropped ==
    /\ pc = "done"
    /\ Len(rows) = 1
    /\ HasTemplate(rows[1])
    /\ ClaimTemplate(rows[1]).longi.present
    /\ ~Resolvable(rows[1])
    /\ projects = << >>
    /\ exportFile.rows = << >>

\* C4: cost parsing never ends the run, every cost is >= 0, and a record is
\* kept for every row gone through whose coordinates resolve.
C4_CostParsingNeverFails ==
    /\ failure # "ValueError"
    /\ \A r \in Range(projects) : ~r.Cost.neg
    /\ Len(projects) = Count(Processed, Resolvable)

\* C5: at every point of the run the records are, in order, those of the
\* rows gone through that have a template and resolvable coordinates: one
\* record per such row, with the row's name and the template's location.
ExpectedRows == SelectSeq(Processed, Resolvable)

C5_DocumentOrderSubsequence ==
    /\ LET expected == ExpectedRows
       IN  /\ Len(projects) = Len(expected)
           /\ \A n \in 1..Len(projects) :
                /\ projects[n].Title = Strip(expected[n].text)
                /\ projects[n].Location = Strip(ClaimTemplate(expected[n]).longi.text)
    /\ pc \in {"export", "render", "save", "done"} => Len(Processed) = Len(doc.rows)

\* C5 witness: the extraction is over for a document of two rows with the
\* same data-id and different names, and each gave its own record, in order.
C5_Witness_DuplicateRows ==
    /\ pc = "export"
    /\ Len(rows) = 2
    /\ rows[1].data_id = rows[2].data_id
    /\ rows[1].text = Bridge /\ rows[2].text = RoadWidening
    /\ Len(projects) = 2
    /\ projects[1].Title = Strip(Bridge)

\* C6: once the export is written its header row is the seven column names
\* in order, and it has one row per record, also when there is no record.
ClaimHeader ==
    <<"Title", "Contractor", "Start Date", "Cost", "Latitude", "Longitude", "Location">>

C6_ExportHeaderAlways ==
    exportWritten =>
        /\ exportFile.header = ClaimHeader
        /\ Len(exportFile.rows) = Len(projects)

\* C7: when the run is complete, the markers of each layer of the saved map
\* are, in order, those of the exported rows whose cost is in the layer's
\* band; the layers together hold as many markers as there are exported rows
\* that cost 50,000,000 or more; and every record is in the export.
InLayer(g) == SelectSeq(exportFile.rows, LAMBDA r : ClaimOutcomes(r[4]) = {g})

C7_MarkersMatchExport ==
    pc = "done" =>
        /\ \A g \in GroupNames :
             /\ Len(mapFile.layers[g]) = Len(InLayer(g))
             /\ \A n \in 1..Len(InLayer(g)) :
                  /\ mapFile.layers[g][n].popup[1] = InLayer(g)[n][1]
                  /\ mapFile.layers[g][n].location = <<InLayer(g)[n][5], InLayer(g)[n][6]>>
        /\ Len(mapFile.layers["50M-100M"]) + Len(mapFile.layers["100M-200M"])
             + Len(mapFile.layers["200M-300M"]) + Len(mapFile.layers["300M-400M"])
             + Len(mapFile.layers["400M+"])
           = Count(exportFile.rows, LAMBDA r : Cost50M <= Floor(r[4]))
        /\ Len(exportFile.rows) = Len(projects)

\* C7 witness: a completed run exported a record that costs less than
\* 50,000,000 and one in a band; the map holds one marker.
C7_Witness_MixedBands ==
    /\ pc = "done"
    /\ Len(exportFile.rows) = 2
    /\ Count(exportFile.rows, LAMBDA r : Floor(r[4]) < Cost50M) = 1
    /\ Len(mapFile.layers["50M-100M"]) = 1

\* C8: a failed read leaves both outputs unwritten and nothing extracted; a
\* failed export leaves the map unbuilt and unwritten; a completed run has
\* written both; a run that is neither completed nor failed is at a stage
\* that can run; no step is taken once the run has failed or completed (no
\* retry); and every step moves to a later stage or further in a loop, so
\* every run ends, completed or failed.
StageRank(p) ==
    CASE p = "load" -> 1 [] p = "extract" -> 2 [] p = "export" -> 3
      [] p = "render" -> 4 [] p = "save" -> 5 [] p \in {"done", "failed"} -> 6

\* Iterations the two loops have left
Remaining(rs, k, fr, l) == (Len(rs) + 1 - k) + (Len(fr.rows) + 1 - l)

StepAdvances ==
    /\ pc \notin {"done", "failed"}
    /\ \/ StageRank(pc') > StageRank(pc)
       \/ pc' = pc /\ Remaining(rows', i', df', j') < Remaining(rows, i, df, j)

FailureStops ==
    /\ pc \in {"load", "extract", "export", "render", "save", "done", "failed"}
    /\ i \in 1..(Len(rows) + 1) /\ j \in 1..(Len(df.rows) + 1)
    /\ failure = "read" =>
         ~exportWritten /\ ~mapWritten /\ rows = << >> /\ projects = << >>
    /\ failure = "export" =>
         ~exportWritten /\ ~mapWritten /\ groups = EmptyGroups /\ unattached = << >>
    /\ pc = "done" => exportWritten /\ mapWritten /\ failure = "none"
    /\ failure # "none" <=> pc = "failed"

C8_FailureIsFatal ==
    /\ []FailureStops
    /\ [][StepAdvances]_vars

\* C8 witness: the export failed after records were extracted.
C8_Witness_ExportFailed ==
    pc = "failed" /\ failure = "export" /\ Len(projects) = 2

\* C9: what the second run on a document writes is what the first run wrote:
\* the same export header and rows, and the same markers in the same layers.
C9_SecondRunSameOutputs ==
    run = 2 =>
        /\ (exportWritten /\ first.export.exists) => exportFile = first.export
        /\ (mapWritten /\ first.map.exists) => mapFile = first.map

\* C9 witness: both runs completed on a document that gives two records, one
\* of them on the map.
C9_Witness_TwoRunsDone ==
    /\ run = 2
    /\ pc = "done"
    /\ first.export.exists /\ first.map.exists
    /\ Len(exportFile.rows) = 2
    /\ Len(mapFile.layers["50M-100M"]) = 1

\* C10: the stages run in order.  Nothing is written before the extraction
\* is over; the map stages run only after the export is written; a written
\* map means a written export with a row for every record; and a failed save
\* leaves the export written and the map not.
C10_ExportBeforeMap ==
    /\ pc \in {"load", "extract", "export"} => ~exportWritten /\ ~mapWritten
    /\ pc = "export" => i > Len(rows) /\ df.rows = projects
    /\ pc \in {"render", "save"} => exportWritten /\ ~mapWritten
    /\ (mapWritten \/ failure = "save" \/ pc \in {"render", "save"}) =>
         /\ exportWritten
         /\ exportFile.exists
         /\ Len(exportFile.rows) = Len(projects)
         /\ \A n \in 1..Len(projects) : exportFile.rows[n][1] = projects[n].Title
    /\ failure = "save" => ~mapWritten

\* C10 witness: the save failed with two records exported.
C10_Witness_SaveFailed ==
    pc = "failed" /\ failure = "save" /\ Len(exportFile.rows) = 2 /\ ~mapWritten
====
